---- MODULE Spec2Model ----
(***************************************************************************)
(* The two agent loops of the repository:                                  *)
(*   StepExecutor.process_input_with_agent_loop                            *)
(*       (src/src/plan_exec_agent/step_executor.py)                        *)
(*   MCPHost.process_input_with_agent_loop                                 *)
(*       (src/mcp_assistant/host.py)                                       *)
(* A Python str is a sequence of tokens, so that emptiness (truthiness),   *)
(* startswith and JSON encoding/decoding are computed, not assumed.        *)
(***************************************************************************)
EXTENDS Integers, Sequences, FiniteSets, TLC

(* ------------------------------ bounds -------------------------------- *)
\* largest max_iterations a caller passes to StepExecutor
MaxIterBound == 2
\* number of tool rounds after which the model of MCPHost's provider stops
\* requesting tools (the code's `while True` has no bound of its own)
MaxRounds == 2

(* ------------------------------ strings ------------------------------- *)
\* Python None, as a result_content
NoneVal == <<"<None>">>
\* `if result_content:` : neither None nor the empty str
Truthy(s) == s # NoneVal /\ Len(s) > 0
SENTINEL == "STEP_FAILED_INSUFFICIENT_CONTEXT"
\* result_content.startswith("STEP_FAILED_INSUFFICIENT_CONTEXT")
StartsWithSentinel(s) == Len(s) > 0 /\ s[1] = SENTINEL
\* extract_path.split(".")
SplitDot(p) ==
  CASE p = "a.b" -> <<"a", "b">>
    [] p = "a.c" -> <<"a", "c">>
    [] OTHER -> <<p>>

(* ------------------------------- JSON --------------------------------- *)
NoKids == [k \in {} |-> 0]
JNum(s) == [t |-> "num", s |-> s, kids |-> NoKids, items |-> <<>>]
JStr(s) == [t |-> "str", s |-> s, kids |-> NoKids, items |-> <<>>]
JNull == [t |-> "null", s |-> "null", kids |-> NoKids, items |-> <<>>]
JBool(s) == [t |-> "bool", s |-> s, kids |-> NoKids, items |-> <<>>]
JObj(f) == [t |-> "obj", s |-> "", kids |-> f, items |-> <<>>]
JList(q) == [t |-> "list", s |-> "", kids |-> NoKids, items |-> q]
\* key order of an object's serialization
KeyOrder == <<"a", "b", "c", "client", "extract_path", "q", "reason",
              "step_number", "tool_id", "uri">>
HasKey(v, k) == v.t = "obj" /\ k \in DOMAIN v.kids

RECURSIVE Dumps(_)
RECURSIVE DumpsKids(_, _, _)
RECURSIVE DumpsItems(_, _)
\* json.dumps
Dumps(v) ==
  CASE v.t = "obj" -> <<"{">> \o DumpsKids(v, 1, TRUE) \o <<"}">>
    [] v.t = "list" -> <<"[">> \o DumpsItems(v.items, 1) \o <<"]">>
    [] v.t = "str" -> <<"\"", v.s, "\"">>
    [] OTHER -> <<v.s>>
DumpsKids(v, n, first) ==
  IF n > Len(KeyOrder) THEN <<>>
  ELSE IF KeyOrder[n] \in DOMAIN v.kids
       THEN (IF first THEN <<>> ELSE <<",">>)
            \o <<"\"", KeyOrder[n], "\"", ":">> \o Dumps(v.kids[KeyOrder[n]])
            \o DumpsKids(v, n + 1, FALSE)
       ELSE DumpsKids(v, n + 1, first)
DumpsItems(q, n) ==
  IF n > Len(q) THEN <<>>
  ELSE (IF n = 1 THEN <<>> ELSE <<",">>) \o Dumps(q[n]) \o DumpsItems(q, n + 1)

\* the scalar and container values a tool result may hold under a key
JLeaves == {JNum("42"), JNum("0"), JStr("cat"), JStr(""), JNull,
            JBool("true"), JBool("false"), JObj(NoKids), JList(<<>>),
            JList(<<JStr("b")>>)}
JInner == JLeaves \cup {JObj([b |-> l]) : l \in JLeaves}
\* the tool arguments the provider sends
ToolArgs ==
  {JObj([tool_id |-> JStr(c)]) : c \in {"c1", "c2"}}
  \cup {JObj([tool_id |-> JStr(c), extract_path |-> JStr(p)]) :
          c \in {"c1", "c2"}, p \in {"a.b", "a", ""}}
  \cup {JObj([uri |-> JStr("u1"), client |-> JStr(cl)]) : cl \in {"Gmail", "Slack"}}
  \cup {JObj([step_number |-> JNum(n)]) : n \in {"1", "9"}}
  \cup {JObj([reason |-> JStr("r1")]), JObj([q |-> JStr("x")])}
\* every value json.loads can answer with in this model
JsonUniverse == JInner \cup {JObj([a |-> x]) : x \in JInner} \cup ToolArgs
\* json.loads: ok = FALSE is json.JSONDecodeError
Loads(s) ==
  IF \E v \in JsonUniverse : Dumps(v) = s
  THEN [ok |-> TRUE, val |-> CHOOSE v \in JsonUniverse : Dumps(v) = s]
  ELSE [ok |-> FALSE, val |-> JNull]
\* bool(data) of a decoded JSON value
PyTruthy(v) ==
  CASE v.t = "num" -> v.s # "0"
    [] v.t = "str" -> v.s # ""
    [] v.t = "null" -> FALSE
    [] v.t = "bool" -> v.s = "true"
    [] v.t = "list" -> Len(v.items) > 0
    [] OTHER -> DOMAIN v.kids # {}
\* `part in data` for a str: substring test
IsSubstring(part, s) == <<part, s>> \in {<<"a", "cat">>, <<"cat", "cat">>}

(* ---------------------- MCPHost._extract_reference_data ---------------- *)
\* tool_args.get("extract_path", None) answering None
NoPath == "<None>"
PathNotFound == <<"Path not found in data">>
NotValidJson == <<"Cannot extract path: result is not valid JSON">>
\* the outcome of a Python call: a value, or an exception leaving the call
Returns(v) == [raised |-> FALSE, value |-> v]
Raises(e) == [raised |-> TRUE, value |-> <<e>>]

RECURSIVE WalkPath(_, _)
\* host.py 468-473: the walk; st = "none" is data = None after a missing part,
\* st = "TypeError" is `part in data` or data[part] on a value that allows
\* neither
WalkPath(data, parts) ==
  IF parts = <<>> THEN [st |-> "found", data |-> data]
  ELSE LET part == Head(parts) IN
    CASE data.t = "obj" ->
           IF part \in DOMAIN data.kids
           THEN WalkPath(data.kids[part], Tail(parts))
           ELSE [st |-> "none", data |-> JNull]
      [] data.t = "list" ->
           IF \E n \in 1..Len(data.items) : data.items[n] = JStr(part)
           THEN [st |-> "TypeError", data |-> JNull]
           ELSE [st |-> "none", data |-> JNull]
      [] data.t = "str" ->
           IF IsSubstring(part, data.s)
           THEN [st |-> "TypeError", data |-> JNull]
           ELSE [st |-> "none", data |-> JNull]
      [] OTHER -> [st |-> "TypeError", data |-> JNull]

\* host.py 474: json.dumps(data) if data else "Path not found in data"
ReturnExtracted(w) ==
  IF w.st = "found" /\ PyTruthy(w.data) THEN Dumps(w.data) ELSE PathNotFound

extract_reference_data(result_content, extract_path) ==
  IF extract_path = NoPath \/ extract_path = "" \/ ~Truthy(result_content)
  THEN Returns(result_content)
  ELSE LET d == Loads(result_content) IN
    IF ~d.ok THEN Returns(NotValidJson)
    ELSE LET w == WalkPath(d.val, SplitDot(extract_path)) IN
      IF w.st = "TypeError" THEN Raises("TypeError")
      ELSE Returns(ReturnExtracted(w))

(* ------------------------- content blocks, messages -------------------- *)
Text(body) == [type |-> "text", text |-> body]
ToolUse(n, a, c) == [type |-> "tool_use", name |-> n, input |-> a, id |-> c]
ToolResult(c, r) == [type |-> "tool_result", tool_use_id |-> c, content |-> r]
Message(r, c) == [role |-> r, content |-> c]
\* a dict with no entry, and d[k] = v
EmptyMap == [k \in {} |-> <<>>]
Put(d, k, v) == [x \in DOMAIN d \cup {k} |-> IF x = k THEN v ELSE d[x]]
\* tool_args[key] of a str argument, "<KeyError>" when the key is missing
Arg(tool_args, key) ==
  IF HasKey(tool_args, key) THEN tool_args.kids[key].s ELSE "<KeyError>"
\* the assistant message without the text blocks accumulated before the tool_use
AppendPairToolUseOnly(messages, assistant_message_content, content, tool_id, result_content) ==
  messages \o <<Message("assistant", <<content>>),
                Message("user", <<ToolResult(tool_id, result_content)>>)>>
\* the two messages every handler appends: the assistant message with the
\* accumulated text blocks and the tool_use block, then the user message with
\* the one tool_result block
AppendPair(messages, assistant_message_content, content, tool_id, result_content) ==
  messages \o <<Message("assistant", Append(assistant_message_content, content)),
                Message("user", <<ToolResult(tool_id, result_content)>>)>>

(* ------------------------------ backends ------------------------------- *)
T1 == Text(<<"t1">>)
T2 == Text(<<"t2">>)
\* what a backend's tool execution or resource read answers with
BackendResults ==
  {<<>>, Dumps(JObj([a |-> JObj([b |-> JNum("42")])])),
   <<SENTINEL, ":", "from backend">>}
BackendOutcomes == {Returns(r) : r \in BackendResults} \cup {Raises("BackendError")}

(* ------------------------------- MCPHost ------------------------------- *)
\* self._all_clients, in insertion order (two of the seven)
AllClients == <<"Gmail", "Slack">>
\* client.session.list_tools() of each backend; Slack also offers tools under
\* the names of the two built-in tools
ListTools(client_name) ==
  CASE client_name = "Gmail" -> <<"send_email", "search">>
    [] client_name = "Slack" ->
         <<"search", "post", "reference_tool_output", "access_resource">>
    [] OTHER -> <<>>
\* list_tools() of each backend once the backends changed the tools they offer
ListToolsLater(client_name) ==
  CASE client_name = "Gmail" -> <<"search">>
    [] client_name = "Slack" -> <<"post">>
    [] OTHER -> <<>>
\* host.py 213: response.tools at the time of the call
ToolsListed(listing, client_name) ==
  IF listing = "later" THEN ListToolsLater(client_name) ELSE ListTools(client_name)
RECURSIVE FilterSeq(_, _)
FilterSeq(q, keep) ==
  IF q = <<>> THEN <<>>
  ELSE (IF Head(q) \in keep THEN <<Head(q)>> ELSE <<>>) \o FilterSeq(Tail(q), keep)
\* every client active, whatever enabled_clients says
McpClientsAll(enabled_clients) == AllClients
\* host.py 59-66: self.mcp_clients, the enabled clients in _all_clients order
McpClients(enabled_clients) ==
  FilterSeq(AllClients, IF enabled_clients = {} THEN {"Gmail", "Slack"}
                        ELSE enabled_clients)
RECURSIVE MapToolsKeepFirst(_, _, _)
\* a name that is already mapped keeps the client it has
MapToolsKeepFirst(tools, client_name, map) ==
  IF tools = <<>> THEN map
  ELSE MapToolsKeepFirst(Tail(tools), client_name,
                         IF Head(tools) \in DOMAIN map THEN map
                         ELSE Put(map, Head(tools), client_name))
RECURSIVE MapTools(_, _, _)
\* host.py 216-219: every tool of one client is mapped to that client
MapTools(tools, client_name, map) ==
  IF tools = <<>> THEN map
  ELSE MapTools(Tail(tools), client_name, Put(map, Head(tools), client_name))
RECURSIVE get_all_tools_from_servers(_, _, _, _)
\* host.py 208-223: (tools, tool_to_client_map) over self.mcp_clients in order
get_all_tools_from_servers(clients, tools, map, listing) ==
  IF clients = <<>> THEN [tools |-> tools, tool_to_client_map |-> map]
  ELSE get_all_tools_from_servers(Tail(clients),
                                  tools \o ToolsListed(listing, Head(clients)),
                                  MapTools(ToolsListed(listing, Head(clients)),
                                           Head(clients), map),
                                  listing)
\* host.py 190-206
get_all_tools(clients, listing) ==
  get_all_tools_from_servers(clients, <<>>, EmptyMap, listing).tools
    \o <<"access_resource", "reference_tool_output">>

RefNotFound(referenced_tool_id) ==
  <<"Error: No tool result found with ID '", referenced_tool_id, "'">>
ToolNotFound(tool_name) == <<"Error: Tool '", tool_name, "' not found in any client">>
ToolNotAvailable(tool_name) == <<"Error: Tool '", tool_name, "' is not available.">>
\* what a handler leaves behind: it raised, or the updated messages, the
\* result_content it returns and final_text; backend is the client whose
\* session was called ("" when none was)
Handled(updated_messages, result_content, final_text, backend) ==
  [raised |-> FALSE, exc |-> "", messages |-> updated_messages,
   result_content |-> result_content, final_text |-> final_text, backend |-> backend]
HandlerRaised(e, messages, final_text, backend) ==
  [raised |-> TRUE, exc |-> e, messages |-> messages, result_content |-> NoneVal,
   final_text |-> final_text, backend |-> backend]

\* the cache indexed without the membership test: a missing id is a KeyError
LookupReferenceUnchecked(tool_results_context, referenced_tool_id, extract_path) ==
  IF referenced_tool_id \in DOMAIN tool_results_context
  THEN extract_reference_data(tool_results_context[referenced_tool_id], extract_path)
  ELSE Raises("KeyError")
\* host.py 426-433: the cached result (cut to extract_path), or the error text
LookupReference(tool_results_context, referenced_tool_id, extract_path) ==
  IF referenced_tool_id \in DOMAIN tool_results_context
  THEN extract_reference_data(tool_results_context[referenced_tool_id], extract_path)
  ELSE Returns(RefNotFound(referenced_tool_id))
\* the reference handler returning its result like the other handlers do
ReferenceReturnsResult(result_content) == result_content
\* host.py 455: return updated_messages, None
ReferenceReturn(result_content) == NoneVal
\* host.py 412-455
handle_reference_tool(tool_id, tool_args, content, assistant_message_content, messages, tool_results_context, final_text) ==
  IF ~HasKey(tool_args, "tool_id") THEN HandlerRaised("KeyError", messages, final_text, "")
  ELSE
    LET referenced_tool_id == Arg(tool_args, "tool_id")
        extract_path == IF HasKey(tool_args, "extract_path")
                        THEN Arg(tool_args, "extract_path") ELSE NoPath
        looked == LookupReference(tool_results_context, referenced_tool_id, extract_path)
    IN IF looked.raised
       THEN HandlerRaised(looked.value[1], messages, final_text, "")
       ELSE Handled(AppendPair(messages, assistant_message_content, content,
                               tool_id, looked.value),
                    ReferenceReturn(looked.value), final_text, "")

\* host.py 478-518; out is what session.read_resource(uri) does
handle_resource_access(tool_id, tool_args, content, assistant_message_content, messages, final_text, mcp_clients, out) ==
  IF ~HasKey(tool_args, "uri") \/ ~HasKey(tool_args, "client")
  THEN HandlerRaised("KeyError", messages, final_text, "")
  ELSE
    LET uri == Arg(tool_args, "uri")
        client_name == Arg(tool_args, "client")
    IN IF \A n \in 1..Len(mcp_clients) : mcp_clients[n] # client_name
       THEN HandlerRaised("KeyError", messages, final_text, "")
       ELSE IF out.raised
       THEN HandlerRaised(out.value[1], messages, final_text, client_name)
       ELSE Handled(AppendPair(messages, assistant_message_content, content,
                               tool_id, out.value),
                    out.value,
                    Append(final_text, <<"[Accessing resource ", uri, "]">>),
                    client_name)

\* the map indexed without the membership test: an unknown name is a KeyError
UnknownToolRaises(tool_name, tool_id, content, assistant_message_content, messages, final_text) ==
  HandlerRaised("KeyError", messages, final_text, "")
\* host.py 560-585: no client has the tool
UnknownTool(tool_name, tool_id, content, assistant_message_content, messages, final_text) ==
  Handled(AppendPair(messages, assistant_message_content, content,
                     tool_id, ToolNotAvailable(tool_name)),
          ToolNotAvailable(tool_name),
          Append(final_text, ToolNotFound(tool_name)),
          "")
\* host.py 531-585; out is what session.call_tool(tool_name, tool_args) does
handle_standard_tool(tool_name, tool_args, tool_id, content, assistant_message_content, messages, final_text, tool_to_client_map, out) ==
  IF tool_name \in DOMAIN tool_to_client_map
  THEN LET client_name == tool_to_client_map[tool_name] IN
       IF out.raised
       THEN HandlerRaised(out.value[1], messages, final_text, client_name)
       ELSE Handled(AppendPair(messages, assistant_message_content, content,
                               tool_id, out.value),
                    out.value,
                    Append(final_text,
                           <<"[Calling tool ", tool_name, " with args ">>
                             \o Dumps(tool_args) \o <<" via client ", client_name, "]">>),
                    client_name)
  ELSE UnknownTool(tool_name, tool_id, content, assistant_message_content,
                   messages, final_text)

\* the name-to-client map consulted before the built-in names
process_tool_call_map_first(tool_name, tool_args, tool_id, content, assistant_message_content, messages, tool_results_context, final_text, mcp_clients, tool_to_client_map, out) ==
  IF tool_name \in DOMAIN tool_to_client_map
  THEN handle_standard_tool(tool_name, tool_args, tool_id, content,
                            assistant_message_content, messages, final_text,
                            tool_to_client_map, out)
  ELSE IF tool_name = "reference_tool_output"
  THEN handle_reference_tool(tool_id, tool_args, content, assistant_message_content,
                             messages, tool_results_context, final_text)
  ELSE IF tool_name = "access_resource"
  THEN handle_resource_access(tool_id, tool_args, content, assistant_message_content,
                              messages, final_text, mcp_clients, out)
  ELSE UnknownTool(tool_name, tool_id, content, assistant_message_content,
                   messages, final_text)
\* host.py 362-410
process_tool_call(tool_name, tool_args, tool_id, content, assistant_message_content, messages, tool_results_context, final_text, mcp_clients, tool_to_client_map, out) ==
  CASE tool_name = "reference_tool_output" ->
         handle_reference_tool(tool_id, tool_args, content, assistant_message_content,
                               messages, tool_results_context, final_text)
    [] tool_name = "access_resource" ->
         handle_resource_access(tool_id, tool_args, content, assistant_message_content,
                                messages, final_text, mcp_clients, out)
    [] OTHER ->
         handle_standard_tool(tool_name, tool_args, tool_id, content,
                              assistant_message_content, messages, final_text,
                              tool_to_client_map, out)

(* ---------------------- StepExecutor's tool processor ------------------ *)
\* the plan-step results the planner put into the state (1-based)
StepResults == [n \in {"1"} |-> <<"done X">>]
\* the tools the toolkit registry returned for the enabled toolkits
ArcadeTools == <<"search">>
StepNotFound(n) == <<"Error: No result found for step ", n>>
InsufficientContext(reason) == <<SENTINEL, ": ", reason>>
ToolFailed(tool_name) == <<"Error: Tool '", tool_name, "' failed">>
\* ToolProcessor.process_tool_call: the result_content of each dispatch branch
tool_processor_result(tool_name, tool_args, tool_results, out) ==
  CASE tool_name = "reference_tool_output" ->
         IF Arg(tool_args, "tool_id") \in DOMAIN tool_results
         THEN tool_results[Arg(tool_args, "tool_id")][2]
         ELSE RefNotFound(Arg(tool_args, "tool_id"))
    [] tool_name = "get_previous_step_result" ->
         IF Arg(tool_args, "step_number") \in DOMAIN StepResults
         THEN StepResults[Arg(tool_args, "step_number")]
         ELSE StepNotFound(Arg(tool_args, "step_number"))
    [] tool_name = "signal_insufficient_context" ->
         InsufficientContext(Arg(tool_args, "reason"))
    [] OTHER ->
         IF \E n \in 1..Len(ArcadeTools) : ArcadeTools[n] = tool_name
         THEN (IF out.raised THEN ToolFailed(tool_name) ELSE out.value)
         ELSE ToolNotAvailable(tool_name)
\* ToolProcessor.process_tool_call: (updated_messages, result_content), and
\* the annotation it leaves in final_text for a backend tool
tool_processor_process_tool_call(tool_name, tool_args, tool_id, content, assistant_message_content, messages, tool_results, final_text, out) ==
  LET result_content == tool_processor_result(tool_name, tool_args, tool_results, out)
      control == tool_name \in {"reference_tool_output", "get_previous_step_result",
                                "signal_insufficient_context"}
  IN Handled(AppendPair(messages, assistant_message_content, content, tool_id,
                        result_content),
             result_content,
             IF control THEN final_text
             ELSE Append(final_text, <<"[Calling tool ", tool_name, "]">>),
             IF control THEN "" ELSE "arcade")

(* --------------------------- model responses --------------------------- *)
QArgs == JObj([q |-> JStr("x")])
RefArgs(c) == JObj([tool_id |-> JStr(c)])
RefPathArgs(c, p) == JObj([tool_id |-> JStr(c), extract_path |-> JStr(p)])
StepArgs(n) == JObj([step_number |-> JNum(n)])
ReasonArgs == JObj([reason |-> JStr("r1")])
ResourceArgs(cl) == JObj([uri |-> JStr("u1"), client |-> JStr(cl)])

\* Shape A, an Anthropic response: response.content
Anthropic(blocks) == [shape |-> "anthropic", content |-> blocks, tool_calls |-> <<>>]
\* Shape B, an OpenAI response: response.choices[0].message
OpenAI(content, tool_calls) == [shape |-> "openai", content |-> content, tool_calls |-> tool_calls]
ToolCall(n, arguments, c) == [id |-> c, name |-> n, arguments |-> arguments]

SESearch1 == ToolUse("search", QArgs, "c1")
SESearch2 == ToolUse("search", QArgs, "c2")
SESignal == ToolUse("signal_insufficient_context", ReasonArgs, "c2")
SERef12 == ToolUse("reference_tool_output", RefArgs("c1"), "c2")
SEToolUses ==
  {SESearch1, SESearch2, SESignal, SERef12,
   ToolUse("reference_tool_output", RefArgs("c2"), "c1"),
   ToolUse("get_previous_step_result", StepArgs("1"), "c2")}
\* the responses an Anthropic model gives StepExecutor
SEAnthropicResponses ==
  {Anthropic(b) : b \in
     {<<>>, <<T2, T1>>}
     \cup {<<u>> : u \in SEToolUses}
     \cup {<<T1, T2, u>> : u \in {SESearch1, SESignal}}
     \cup {<<SESearch1, SESearch2>>, <<SERef12, SESignal, T2>>}}
\* arguments that are not JSON
Malformed == <<"{", "\"", "q", "\"">>
OASearch1 == ToolCall("search", Dumps(QArgs), "c1")
OABad2 == ToolCall("search", Malformed, "c2")
OASignal == ToolCall("signal_insufficient_context", Dumps(ReasonArgs), "c2")
OARef12 == ToolCall("reference_tool_output", Dumps(RefArgs("c1")), "c2")
\* the responses an OpenAI model gives StepExecutor
SEOpenAIResponses ==
  {OpenAI(c, t) : c \in {<<>>, <<"t1">>},
                  t \in {<<>>, <<OASearch1>>, <<OASignal>>, <<OARef12>>,
                         <<OASearch1, OABad2>>}}
SEResponses(provider) ==
  IF provider = "ANTHROPIC" THEN SEAnthropicResponses ELSE SEOpenAIResponses

MHSend1 == ToolUse("send_email", QArgs, "c1")
MHSearch2 == ToolUse("search", QArgs, "c2")
MHUnknown == ToolUse("unknown_tool", QArgs, "c1")
MHRef12 == ToolUse("reference_tool_output", RefArgs("c1"), "c2")
MHPost2 == ToolUse("post", QArgs, "c2")
MHToolUses ==
  {MHSend1, MHSearch2, MHUnknown, MHRef12, MHPost2,
   ToolUse("reference_tool_output", RefPathArgs("c1", "a.b"), "c2"),
   ToolUse("access_resource", ResourceArgs("Gmail"), "c1"),
   ToolUse("access_resource", ResourceArgs("Slack"), "c2")}
\* the responses the Anthropic model gives MCPHost
MHResponses ==
  {Anthropic(b) : b \in
     {<<>>, <<T2, T1>>}
     \cup {<<u>> : u \in MHToolUses}
     \cup {<<T1, T2, u>> : u \in {MHSend1, MHUnknown}}
     \cup {<<MHSend1, MHSearch2>>, <<MHRef12, MHUnknown, T2>>}}
HasToolUse(r) ==
  \/ \E n \in 1..Len(r.tool_calls) : TRUE
  \/ r.shape = "anthropic" /\ \E n \in 1..Len(r.content) : r.content[n].type = "tool_use"

\* step_executor.py 60-176: a tool description in the provider's wire format
ToolDecl(prov, name) ==
  IF prov = "ANTHROPIC" THEN [shape |-> "anthropic", name |-> name]
  ELSE [shape |-> "openai_function", name |-> name]
\* state["current_plan"]: the steps left, the current one first
CurrentPlan == <<"step 2", "step 3">>
\* step_executor.py 197, host.py 231: state: State | None = None
NoState ==
  [given |-> FALSE, has_tools |-> FALSE, tools |-> <<>>, current_plan |-> <<>>,
   step_results |-> EmptyMap]
\* a state with no "tools" entry; it carries the plan and the results of the
\* plan's earlier steps
StateWithoutTools ==
  [given |-> TRUE, has_tools |-> FALSE, tools |-> <<>>, current_plan |-> CurrentPlan,
   step_results |-> StepResults]
\* a state whose "tools" entry is the catalog the caller authorized
StateWithTools(tools) ==
  [given |-> TRUE, has_tools |-> TRUE, tools |-> tools, current_plan |-> CurrentPlan,
   step_results |-> StepResults]
SessionCatalog(prov) ==
  <<ToolDecl(prov, "signal_insufficient_context"), ToolDecl(prov, "search")>>
\* the states StepExecutor's caller may pass
SessionStates(prov) ==
  {NoState, StateWithoutTools, StateWithTools(<<>>), StateWithTools(SessionCatalog(prov))}
\* langfuse_session_id: str | None = None
NoSession == "<None>"
\* step_executor.py 205-207, host.py 234-236
current_system_prompt == "self.system_prompt"
\* one entry of callLog: the arguments of a model call and how it ended
ModelCall(tools, prov, system_prompt, m) ==
  [available_tools |-> tools, provider |-> prov, system_prompt |-> system_prompt,
   failed |-> m.raised, exc |-> IF m.raised THEN m.value[1] ELSE ""]

(* ------------------------------- state --------------------------------- *)
VARIABLES
  driver,            \* "SE": StepExecutor's loop runs, "MH": MCPHost's
  provider,          \* ModelProvider of the invocation
  max_iterations,    \* StepExecutor's max_iterations argument
  enabled_clients,   \* MCPHost's enabled_clients argument
  pc,                \* "start", "while", "for", "done" (returned), "raised"
  exc,               \* the exception that left the invocation, "" if none
  messages,
  available_tools,
  response,          \* the model's latest response
  response_contents, \* the blocks the for loop iterates over
  pos,               \* the for loop's position in response_contents (1-based)
  assistant_message_content,
  has_tool_calls,
  final_text,
  i,
  tool_results,          \* state["tool_results"]
  tool_results_context,  \* MCPHost's local cache of the invocation
  tool_to_client_map,    \* MCPHost.tool_to_client_map
  enabled_toolkits,  \* StepExecutor.enabled_toolkits
  state,             \* the session state argument: given or None, and its tools entry
  langfuse_session_id, \* the langfuse_session_id argument, NoSession if None
  catalogCalls,      \* history: number of catalog constructions
  callLog,           \* history: what each model call was given
  returned,          \* the value the invocation returned
  modelCalls,        \* history: number of model calls issued
  roundsLog,         \* history: the response_contents of every round entered
  dispatchLog        \* history: one entry per tool call handed to the resolver

vars == <<driver, provider, max_iterations, enabled_clients, pc, exc, messages,
          available_tools, response, response_contents, pos,
          assistant_message_content, has_tool_calls, final_text, i,
          tool_results, tool_results_context, tool_to_client_map,
          enabled_toolkits, state, langfuse_session_id, catalogCalls, callLog,
          returned, modelCalls, roundsLog, dispatchLog>>

\* the state at the call of process_input_with_agent_loop; earlier_se and
\* earlier_mh are what state["tool_results"] holds from earlier invocations
InitWith(earlier_se, earlier_mh) ==
  /\ driver \in {"SE", "MH"}
  /\ \/ driver = "SE" /\ provider \in {"ANTHROPIC", "OPENAI"}
        /\ max_iterations \in 1..MaxIterBound /\ enabled_clients = {}
        /\ state \in SessionStates(provider) /\ langfuse_session_id = NoSession
     \/ driver = "MH" /\ provider = "ANTHROPIC" /\ max_iterations = 0
        /\ enabled_clients \in {{"Gmail"}, {"Gmail", "Slack"}}
        /\ state = StateWithoutTools /\ langfuse_session_id \in {NoSession, "s1"}
  /\ pc = "start"
  /\ exc = ""
  /\ messages = <<>>
  /\ available_tools = <<>>
  /\ response = Anthropic(<<>>)
  /\ response_contents = <<>>
  /\ pos = 1
  /\ assistant_message_content = <<>>
  /\ has_tool_calls = FALSE
  /\ final_text = <<>>
  /\ i = 0
  /\ tool_results = IF driver = "SE" THEN earlier_se ELSE earlier_mh
  /\ tool_results_context = EmptyMap
  /\ tool_to_client_map = EmptyMap
  /\ returned = <<>>
  /\ modelCalls = 0
  /\ roundsLog = <<>>
  /\ enabled_toolkits = IF driver = "SE" THEN {"Search"} ELSE {}
  /\ catalogCalls = 0
  /\ callLog = <<>>
  /\ dispatchLog = <<>>
\* the first invocation on a session state: nothing cached yet
Init == InitWith(EmptyMap, EmptyMap)

\* one entry of dispatchLog
Dispatch(content, o) ==
  [round |-> Len(roundsLog), pos |-> pos, name |-> content.name, id |-> content.id,
   input |-> content.input, raised |-> o.raised, result |-> o.result_content,
   fed |-> IF o.raised THEN NoneVal ELSE o.messages[Len(o.messages)].content[1].content,
   backend |-> o.backend, calls |-> modelCalls, before |-> messages,
   after |-> o.messages, text_after |-> o.final_text,
   cache |-> IF driver = "SE" THEN DOMAIN tool_results ELSE DOMAIN tool_results_context]
\* what the backend call of a dispatch may do; a control tool reaches no backend
OutcomesFor(tool_name) ==
  IF tool_name \in {"reference_tool_output", "get_previous_step_result",
                    "signal_insufficient_context"}
  THEN {Returns(<<>>)} ELSE BackendOutcomes

(* ----------------------------- StepExecutor ---------------------------- *)
\* the toolkits of the registry, in the registry's order, and their tools
Toolkits == <<"Notes", "Search", "Mail", "Chat", "Calendar">>
ToolkitTools(toolkit) ==
  CASE toolkit = "Search" -> ArcadeTools
    [] toolkit = "Mail" -> <<"send_mail", "read_mail">>
    [] toolkit = "Chat" -> <<"post">>
    [] toolkit = "Notes" -> <<"note">>
    [] OTHER -> <<"event">>
RECURSIVE RegistryTools(_, _, _)
RegistryTools(prov, toolkits, enabled) ==
  IF toolkits = <<>> THEN <<>>
  ELSE (IF Head(toolkits) \in enabled
        THEN [n \in 1..Len(ToolkitTools(Head(toolkits))) |->
                ToolDecl(prov, ToolkitTools(Head(toolkits))[n])]
        ELSE <<>>) \o RegistryTools(prov, Tail(toolkits), enabled)
\* get_toolkits_from_arcade(client, provider, enabled_toolkits): the tools of
\* the enabled toolkits, in the registry's order, in the provider's format
get_toolkits_from_arcade(prov, enabled) == RegistryTools(prov, Toolkits, enabled)
\* the fetched tools put in front of the control tools
se_get_all_tools_fetched_first(prov, arcade_tools) ==
  arcade_tools \o <<ToolDecl(prov, "reference_tool_output"),
                    ToolDecl(prov, "get_previous_step_result"),
                    ToolDecl(prov, "signal_insufficient_context")>>
\* step_executor.py 178-187
se_get_all_tools(prov, arcade_tools) ==
  <<ToolDecl(prov, "reference_tool_output"),
    ToolDecl(prov, "get_previous_step_result"),
    ToolDecl(prov, "signal_insufficient_context")>> \o arcade_tools

RECURSIVE DecodeCalls(_)
\* step_executor.py 252-259: one tool_use block per tool_call, arguments decoded
DecodeCalls(tool_calls) ==
  IF tool_calls = <<>> THEN <<>>
  ELSE <<ToolUse(Head(tool_calls).name, Loads(Head(tool_calls).arguments).val,
                 Head(tool_calls).id)>> \o DecodeCalls(Tail(tool_calls))
\* the OpenAI message's content left out of the blocks
NormalizeWithoutText(prov, resp) ==
  IF prov = "ANTHROPIC" THEN Returns(resp.content)
  ELSE IF \E n \in 1..Len(resp.tool_calls) : ~Loads(resp.tool_calls[n].arguments).ok
  THEN Raises("JSONDecodeError")
  ELSE Returns(DecodeCalls(resp.tool_calls))
\* only the arguments of the first tool_call, the one that will be dispatched,
\* are checked
NormalizeFirstCallOnly(prov, resp) ==
  IF prov = "ANTHROPIC" THEN Returns(resp.content)
  ELSE IF resp.tool_calls # <<>> /\ ~Loads(resp.tool_calls[1].arguments).ok
  THEN Raises("JSONDecodeError")
  ELSE Returns((IF Truthy(resp.content) THEN <<Text(resp.content)>> ELSE <<>>)
               \o DecodeCalls(resp.tool_calls))
\* step_executor.py 243-259: response_contents, or json.loads raising
Normalize(prov, resp) ==
  IF prov = "ANTHROPIC" THEN Returns(resp.content)
  ELSE IF \E n \in 1..Len(resp.tool_calls) : ~Loads(resp.tool_calls[n].arguments).ok
  THEN Raises("JSONDecodeError")
  ELSE Returns((IF Truthy(resp.content) THEN <<Text(resp.content)>> ELSE <<>>)
               \o DecodeCalls(resp.tool_calls))

\* the sentinel test as an equality test: misses a sentinel that carries a reason
ReturnEarlyOnBareSentinel(result_content) == result_content = <<SENTINEL>>
\* step_executor.py 302: the insufficiency signal
ShouldReturnEarly(result_content) ==
  Truthy(result_content) /\ StartsWithSentinel(result_content)
\* step_executor.py 308-312
ShouldMemoize(tool_name, result_content) ==
  /\ Truthy(result_content)
  /\ tool_name # "get_previous_step_result"
  /\ tool_name # "reference_tool_output"
\* the session state and its call-result cache after a write
Written(st, results) == [state |-> st, tool_results |-> results]
\* the result stored among the plan-step results of the state
StoreAmongStepResults(st, results, tool_id, tool_name, result_content) ==
  Written([st EXCEPT !.step_results = Put(@, tool_id, result_content)], results)
\* step_executor.py 313: state["tool_results"][tool_id] = (tool_name, result_content)
StoreToolResult(st, results, tool_id, tool_name, result_content) ==
  Written(st, Put(results, tool_id, <<tool_name, result_content>>))
\* the content loop without its break: it goes on to the response's next block
NoBreakAfterDispatch == FALSE
\* step_executor.py 328 and host.py 304: break out of the content loop
BreakAfterDispatch == TRUE
\* the loop test off by one
LoopContinuesInclusive(n, max) == n <= max
\* step_executor.py 238: while True and i < max_iterations
LoopContinues(n, max) == n < max
\* step_executor.py 334: i += 1
NextIteration(n) == n + 1

\* message_creator.create_message: a response, or the provider call failing
SECreateMessage(prov) ==
  {Returns(r) : r \in SEResponses(prov)} \cup {Raises("ProviderCallError")}
\* step_executor.py 222: the state carries a non-empty catalog
UsesSessionCatalog(st) == st.has_tools /\ st.tools # <<>>
\* a failed model call swallowed by the driver, which goes on with the response
\* it had
ProviderFailureSwallowed == FALSE
\* step_executor.py 226-232, 315-325, host.py 255-257, 296-301: no try/except
\* around the model call
ProviderFailurePropagates == TRUE
\* the model call m leaves the invocation as an exception
LeavesLoop(m) ==
  m.raised /\ (ProviderFailurePropagates \/ m.value[1] # "ProviderCallError")

\* step_executor.py 205-235: the opening message, the catalog, the first model call
SE_Start ==
  /\ driver = "SE" /\ pc = "start"
  /\ messages' = <<Message("user", <<"input_action">>)>>
  /\ final_text' = <<>>
  /\ i' = 0
  /\ IF ~state.given
     THEN /\ pc' = "raised" /\ exc' = "TypeError"
          /\ UNCHANGED <<available_tools, catalogCalls, response, modelCalls, callLog>>
     ELSE /\ available_tools' =
               IF UsesSessionCatalog(state) THEN state.tools
               ELSE se_get_all_tools(provider,
                                     get_toolkits_from_arcade(provider, enabled_toolkits))
          /\ catalogCalls' =
               IF UsesSessionCatalog(state) THEN catalogCalls ELSE catalogCalls + 1
          /\ modelCalls' = modelCalls + 1
          /\ \E m \in SECreateMessage(provider) :
               /\ callLog' = Append(callLog, ModelCall(available_tools', provider,
                                                       current_system_prompt, m))
               /\ IF LeavesLoop(m)
                  THEN pc' = "raised" /\ exc' = m.value[1] /\ response' = response
                  ELSE /\ pc' = "while" /\ exc' = exc
                       /\ response' = IF m.raised THEN response ELSE m.value
  /\ UNCHANGED <<driver, provider, max_iterations, enabled_clients, enabled_toolkits,
                 state, langfuse_session_id, response_contents, pos,
                 assistant_message_content, has_tool_calls, tool_results,
                 tool_results_context, tool_to_client_map, returned, roundsLog,
                 dispatchLog>>

\* step_executor.py 238-259 and 340: the loop test, then the round's set-up
SE_While ==
  /\ driver = "SE" /\ pc = "while"
  /\ IF LoopContinues(i, max_iterations)
     THEN LET n == Normalize(provider, response) IN
          IF n.raised
          THEN /\ pc' = "raised" /\ exc' = n.value[1]
               /\ UNCHANGED <<response_contents, pos, roundsLog, returned>>
          ELSE /\ pc' = "for" /\ exc' = exc
               /\ response_contents' = n.value
               /\ pos' = 1
               /\ roundsLog' = Append(roundsLog, n.value)
               /\ UNCHANGED returned
     ELSE /\ pc' = "done" /\ returned' = final_text
          /\ UNCHANGED <<exc, response_contents, pos, roundsLog>>
  /\ assistant_message_content' = <<>>
  /\ has_tool_calls' = FALSE
  /\ UNCHANGED <<driver, provider, max_iterations, enabled_clients, enabled_toolkits,
                 state, langfuse_session_id, catalogCalls, callLog, messages,
                 available_tools, response, final_text, i, tool_results,
                 tool_results_context, tool_to_client_map, modelCalls, dispatchLog>>

\* step_executor.py 262-268: a text block
SE_Text ==
  /\ driver = "SE" /\ pc = "for"
  /\ pos <= Len(response_contents)
  /\ response_contents[pos].type = "text"
  /\ final_text' = Append(final_text, response_contents[pos].text)
  /\ assistant_message_content' =
       Append(assistant_message_content, response_contents[pos])
  /\ pos' = pos + 1
  /\ UNCHANGED <<driver, provider, max_iterations, enabled_clients, enabled_toolkits,
                 state, langfuse_session_id, catalogCalls, callLog, pc, exc, messages,
                 available_tools, response, response_contents, has_tool_calls, i,
                 tool_results, tool_results_context, tool_to_client_map, returned,
                 modelCalls, roundsLog, dispatchLog>>

\* step_executor.py 269-328: a tool_use block: dispatch, sentinel test,
\* memoization, next model call, break (and 331-338 after the break)
SE_ToolUse ==
  /\ driver = "SE" /\ pc = "for"
  /\ pos <= Len(response_contents)
  /\ response_contents[pos].type = "tool_use"
  /\ LET content == response_contents[pos] IN
     \E out \in OutcomesFor(content.name) :
       LET o == tool_processor_process_tool_call(content.name, content.input,
                  content.id, content, assistant_message_content, messages,
                  tool_results, final_text, out)
       IN /\ dispatchLog' = Append(dispatchLog, Dispatch(content, o))
          /\ has_tool_calls' = TRUE
          /\ IF ShouldReturnEarly(o.result_content)
             THEN /\ final_text' = Append(o.final_text, o.result_content)
                  /\ returned' = final_text'
                  /\ pc' = "done"
                  /\ UNCHANGED <<messages, state, tool_results, response, modelCalls,
                                 i, pos, assistant_message_content, exc, callLog>>
             ELSE /\ final_text' = o.final_text
                  /\ messages' = o.messages
                  /\ LET w == IF ShouldMemoize(content.name, o.result_content)
                              THEN StoreToolResult(state, tool_results, content.id,
                                                   content.name, o.result_content)
                              ELSE Written(state, tool_results)
                     IN state' = w.state /\ tool_results' = w.tool_results
                  /\ modelCalls' = modelCalls + 1
                  /\ assistant_message_content' =
                       Append(assistant_message_content, content)
                  /\ UNCHANGED returned
                  /\ \E m \in SECreateMessage(provider) :
                       /\ callLog' = Append(callLog, ModelCall(available_tools, provider,
                                                               current_system_prompt, m))
                       /\ IF LeavesLoop(m)
                          THEN /\ pc' = "raised" /\ exc' = m.value[1]
                               /\ UNCHANGED <<response, i, pos>>
                          ELSE /\ response' = IF m.raised THEN response ELSE m.value
                               /\ exc' = exc
                               /\ IF BreakAfterDispatch
                                  THEN /\ i' = NextIteration(i)
                                       /\ pc' = "while"
                                       /\ pos' = pos
                                  ELSE /\ i' = i
                                       /\ pc' = "for"
                                       /\ pos' = pos + 1
  /\ UNCHANGED <<driver, provider, max_iterations, enabled_clients, enabled_toolkits,
                 langfuse_session_id, catalogCalls, available_tools,
                 response_contents, tool_results_context, tool_to_client_map,
                 roundsLog>>

\* step_executor.py 331-340: the content loop ran to its end
SE_EndFor ==
  /\ driver = "SE" /\ pc = "for"
  /\ pos > Len(response_contents)
  /\ IF ~has_tool_calls
     THEN /\ pc' = "done" /\ returned' = final_text /\ i' = i
     ELSE /\ pc' = "while" /\ i' = NextIteration(i) /\ UNCHANGED returned
  /\ UNCHANGED <<driver, provider, max_iterations, enabled_clients, enabled_toolkits,
                 state, langfuse_session_id, catalogCalls, callLog, exc, messages,
                 available_tools, response, response_contents, pos,
                 assistant_message_content, has_tool_calls, final_text, tool_results,
                 tool_results_context, tool_to_client_map, modelCalls, roundsLog,
                 dispatchLog>>

(* ------------------------------- MCPHost ------------------------------- *)
RECURSIVE Join(_)
\* "\n".join(final_text)
Join(parts) ==
  IF parts = <<>> THEN <<>>
  ELSE IF Len(parts) = 1 THEN parts[1]
  ELSE parts[1] \o <<"\n">> \o Join(Tail(parts))
\* dict.update
Update(d, e) == [x \in DOMAIN d \cup DOMAIN e |-> IF x \in DOMAIN e THEN e[x] ELSE d[x]]
\* host.py 313-314: state["tool_results"].update(tool_results_context)
UpdateToolResults(st, results, context) == Written(st, Update(results, context))
\* host.py 292: if result_content
ShouldCache(result_content) == Truthy(result_content)
\* the responses left to the model once MaxRounds tools were dispatched
MHNextResponses(dispatched) ==
  IF dispatched >= MaxRounds THEN {r \in MHResponses : ~HasToolUse(r)} ELSE MHResponses

\* host.py 323-360: a response; the Anthropic call failing; or one of the
\* langfuse calls of lines 331-335 and 346-358 failing
MHCreateClaudeMessage(dispatched) ==
  {Returns(r) : r \in MHNextResponses(dispatched)}
  \cup {Raises("ProviderCallError"), Raises("TelemetryError")}
\* host.py 378-381: the langfuse calls of _process_tool_call, made only with a
\* session id
ToolTelemetry(session_id) ==
  IF session_id # NoSession THEN {"ok", "TelemetryError"} ELSE {"ok"}

\* host.py 233-265: the opening message, the catalog and the name-to-client
\* map, the first model call, the first round's set-up
MH_Start ==
  /\ driver = "MH" /\ pc = "start"
  /\ tool_results_context' = EmptyMap
  /\ messages' = <<Message("user", <<"query", "\n\n", "resources_info">>)>>
  /\ tool_to_client_map' =
       get_all_tools_from_servers(McpClients(enabled_clients), <<>>, EmptyMap,
                                  "first").tool_to_client_map
  /\ available_tools' = get_all_tools(McpClients(enabled_clients), "first")
  /\ catalogCalls' = catalogCalls + 1
  /\ modelCalls' = modelCalls + 1
  /\ \E m \in MHCreateClaudeMessage(0) :
       /\ callLog' = Append(callLog, ModelCall(available_tools', provider,
                                               current_system_prompt, m))
       /\ IF LeavesLoop(m)
          THEN /\ pc' = "raised" /\ exc' = m.value[1]
               /\ UNCHANGED <<response, response_contents, roundsLog>>
          ELSE /\ pc' = "for" /\ exc' = exc
               /\ response' = IF m.raised THEN response ELSE m.value
               /\ response_contents' = response'.content
               /\ roundsLog' = Append(roundsLog, response'.content)
  /\ final_text' = <<>>
  /\ assistant_message_content' = <<>>
  /\ has_tool_calls' = FALSE
  /\ pos' = 1
  /\ UNCHANGED <<driver, provider, max_iterations, enabled_clients, enabled_toolkits,
                 state, langfuse_session_id, i, tool_results, returned, dispatchLog>>

\* host.py 268-270: a text block
MH_Text ==
  /\ driver = "MH" /\ pc = "for"
  /\ pos <= Len(response_contents)
  /\ response_contents[pos].type = "text"
  /\ final_text' = Append(final_text, response_contents[pos].text)
  /\ assistant_message_content' =
       Append(assistant_message_content, response_contents[pos])
  /\ pos' = pos + 1
  /\ UNCHANGED <<driver, provider, max_iterations, enabled_clients, enabled_toolkits,
                 state, langfuse_session_id, catalogCalls, callLog, pc, exc, messages,
                 available_tools, response, response_contents, has_tool_calls, i,
                 tool_results, tool_results_context, tool_to_client_map, returned,
                 modelCalls, roundsLog, dispatchLog>>

\* host.py 271-304 and 264-265: a tool_use block: dispatch, caching, next model
\* call, break, and the next round's set-up; creates is what the model call of
\* line 296 may do
MH_ToolUseGiven(creates) ==
  /\ driver = "MH" /\ pc = "for"
  /\ pos <= Len(response_contents)
  /\ response_contents[pos].type = "tool_use"
  /\ LET content == response_contents[pos] IN
     \E tel \in ToolTelemetry(langfuse_session_id), out \in OutcomesFor(content.name) :
       LET o == process_tool_call(content.name, content.input, content.id, content,
                  assistant_message_content, messages, tool_results_context,
                  final_text, McpClients(enabled_clients), tool_to_client_map, out)
       IN IF tel # "ok"
          THEN /\ out = CHOOSE x \in OutcomesFor(content.name) : TRUE
               /\ pc' = "raised" /\ exc' = tel
               /\ has_tool_calls' = TRUE
               /\ UNCHANGED <<dispatchLog, final_text, messages, tool_results_context,
                              response, response_contents, modelCalls, callLog, pos,
                              roundsLog, assistant_message_content>>
          ELSE
          /\ dispatchLog' = Append(dispatchLog, Dispatch(content, o))
          /\ final_text' = o.final_text
          /\ IF o.raised
             THEN /\ pc' = "raised" /\ exc' = o.exc
                  /\ has_tool_calls' = TRUE
                  /\ UNCHANGED <<messages, tool_results_context, response,
                                 response_contents, modelCalls, callLog, pos, roundsLog,
                                 assistant_message_content>>
             ELSE /\ messages' = o.messages
                  /\ tool_results_context' =
                       IF ShouldCache(o.result_content)
                       THEN Put(tool_results_context, content.id, o.result_content)
                       ELSE tool_results_context
                  /\ modelCalls' = modelCalls + 1
                  /\ \E m \in creates :
                       /\ callLog' = Append(callLog, ModelCall(available_tools, provider,
                                                               current_system_prompt, m))
                       /\ IF LeavesLoop(m)
                          THEN /\ pc' = "raised" /\ exc' = m.value[1]
                               /\ has_tool_calls' = TRUE
                               /\ UNCHANGED <<response, response_contents, pos,
                                              roundsLog, assistant_message_content>>
                          ELSE
                          /\ response' = IF m.raised THEN response ELSE m.value
                          /\ exc' = exc
                          /\ IF BreakAfterDispatch
                             THEN /\ pc' = "for"
                                  /\ response_contents' = response'.content
                                  /\ roundsLog' = Append(roundsLog, response'.content)
                                  /\ pos' = 1
                                  /\ assistant_message_content' = <<>>
                                  /\ has_tool_calls' = FALSE
                             ELSE /\ pc' = "for"
                                  /\ pos' = pos + 1
                                  /\ assistant_message_content' =
                                       Append(assistant_message_content, content)
                                  /\ has_tool_calls' = TRUE
                                  /\ UNCHANGED <<response_contents, roundsLog>>
  /\ UNCHANGED <<driver, provider, max_iterations, enabled_clients, enabled_toolkits,
                 state, langfuse_session_id, catalogCalls, available_tools, i,
                 tool_results, tool_to_client_map, returned>>

\* host.py 271-304 against the provider of the bounded model
MH_ToolUse == MH_ToolUseGiven(MHCreateClaudeMessage(Len(dispatchLog) + 1))

\* host.py 306-316: the content loop ran to its end without a tool call: the
\* closing append, the hand-back of the cache, the return
MH_EndFor ==
  /\ driver = "MH" /\ pc = "for"
  /\ pos > Len(response_contents)
  /\ IF ~has_tool_calls
     THEN /\ final_text' =
               IF Len(response.content) > 0 /\ response.content[1].type = "text"
               THEN Append(final_text, response.content[1].text)
               ELSE final_text
          /\ LET w == UpdateToolResults(state, tool_results, tool_results_context)
             IN state' = w.state /\ tool_results' = w.tool_results
          /\ returned' = Join(final_text')
          /\ pc' = "done"
          /\ UNCHANGED <<response_contents, roundsLog, pos, assistant_message_content>>
     ELSE /\ response_contents' = response.content
          /\ roundsLog' = Append(roundsLog, response.content)
          /\ pos' = 1
          /\ assistant_message_content' = <<>>
          /\ UNCHANGED <<final_text, state, tool_results, returned, pc>>
  /\ has_tool_calls' = FALSE
  /\ UNCHANGED <<driver, provider, max_iterations, enabled_clients, enabled_toolkits,
                 langfuse_session_id, catalogCalls, callLog, exc, messages,
                 available_tools, response, i, tool_results_context,
                 tool_to_client_map, modelCalls, dispatchLog>>

Next ==
  \/ SE_Start \/ SE_While \/ SE_Text \/ SE_ToolUse \/ SE_EndFor
  \/ MH_Start \/ MH_Text \/ MH_ToolUse \/ MH_EndFor

Spec == Init /\ [][Next]_vars

(* ------------- a later plan step on the same session state ------------ *)
\* the backend result an earlier invocation obtained for the call c1
EarlierResult == Dumps(JObj([a |-> JObj([b |-> JNum("42")])]))
\* step_executor.py 313: what StepExecutor left in state["tool_results"]
EarlierResultsSE == Put(EmptyMap, "c1", <<"search", EarlierResult>>)
\* host.py 293, 314: what MCPHost left in state["tool_results"]
EarlierResultsMH == Put(EmptyMap, "c1", EarlierResult)
CrossStepInit == InitWith(EarlierResultsSE, EarlierResultsMH)
CrossStepSpec == CrossStepInit /\ [][Next]_vars

(* ------------- two invocations on one MCPHost (host.py 222) ------------- *)
\* host.py 251-252 and 208-222 run by another invocation of
\* process_input_with_agent_loop on the same host while this one was suspended
\* in a backend call: it lists the backends' tools as they are by then and
\* assigns the host's tool_to_client_map
MH_OtherInvocation ==
  /\ driver = "MH" /\ pc = "for"
  /\ Len(dispatchLog) > 0
  /\ dispatchLog[Len(dispatchLog)].backend # ""
  /\ \E listing \in {"first", "later"} :
       tool_to_client_map' =
         get_all_tools_from_servers(McpClients(enabled_clients), <<>>, EmptyMap,
                                    listing).tool_to_client_map
  /\ tool_to_client_map' # tool_to_client_map
  /\ UNCHANGED <<driver, provider, max_iterations, enabled_clients, enabled_toolkits,
                 state, langfuse_session_id, catalogCalls, callLog, pc, exc,
                 messages, available_tools, response, response_contents, pos,
                 assistant_message_content, has_tool_calls, final_text, i,
                 tool_results, tool_results_context, returned, modelCalls,
                 roundsLog, dispatchLog>>
ConcNext == Next \/ MH_OtherInvocation
ConcSpec == Init /\ [][ConcNext]_vars

(* ------- MCPHost against a model that keeps requesting tools ----------- *)
\* the number of tool rounds an iteration budget would allow MCPHost
MHBudget == 3
\* host.py 337-343: the model answers with a tool request as often as it
\* likes; every call returns
InsistentCreateClaudeMessage ==
  {Returns(Anthropic(b)) : b \in {<<MHSend1>>, <<T1, MHSearch2>>, <<T2, T1>>}}
InsistentInit ==
  /\ Init
  /\ driver = "MH" /\ enabled_clients = {"Gmail"} /\ langfuse_session_id = NoSession
\* host.py 271-304; the run is followed for one dispatch beyond MHBudget
MH_ToolUseInsistent ==
  /\ Len(dispatchLog) <= MHBudget
  /\ MH_ToolUseGiven(InsistentCreateClaudeMessage)
InsistentNext == MH_Start \/ MH_Text \/ MH_ToolUseInsistent \/ MH_EndFor
InsistentSpec == InsistentInit /\ [][InsistentNext]_vars

(* --------- _extract_reference_data on its own (host.py 457-476) --------- *)
\* the cached results the function is applied to: serialized JSON values, and
\* strings that are not JSON
ExtractCached ==
  {Dumps(v) : v \in JInner \cup {JObj([a |-> x]) : x \in JInner}}
  \cup {<<"plain">>, <<SENTINEL, ":", "from backend">>, Malformed}
ExtractPaths == {"a.b", "a", "a.c"}
\* a cached result under c1 and a reference to it with an extract_path
ExtractInit ==
  /\ driver = "MH" /\ provider = "ANTHROPIC" /\ max_iterations = 0
  /\ enabled_clients = {"Gmail"}
  /\ pc = "extract"
  /\ exc = ""
  /\ messages = <<>>
  /\ available_tools = <<>>
  /\ response = Anthropic(<<>>)
  /\ \E p \in ExtractPaths :
       response_contents = <<ToolUse("reference_tool_output", RefPathArgs("c1", p), "c2")>>
  /\ pos = 1
  /\ assistant_message_content = <<>>
  /\ has_tool_calls = FALSE
  /\ final_text = <<>>
  /\ i = 0
  /\ tool_results = EmptyMap
  /\ \E r \in ExtractCached : tool_results_context = Put(EmptyMap, "c1", r)
  /\ tool_to_client_map = EmptyMap
  /\ returned = <<>>
  /\ modelCalls = 0
  /\ roundsLog = <<>>
  /\ enabled_toolkits = {}
  /\ state = StateWithoutTools
  /\ langfuse_session_id = NoSession
  /\ catalogCalls = 0
  /\ callLog = <<>>
  /\ dispatchLog = <<>>
ExtractedPath == Arg(response_contents[1].input, "extract_path")
\* host.py 457-476: one call of _extract_reference_data
Extract_Apply ==
  /\ pc = "extract"
  /\ LET o == extract_reference_data(tool_results_context["c1"], ExtractedPath) IN
     IF o.raised
     THEN pc' = "raised" /\ exc' = o.value[1] /\ returned' = returned
     ELSE pc' = "done" /\ exc' = exc /\ returned' = o.value
  /\ UNCHANGED <<driver, provider, max_iterations, enabled_clients, enabled_toolkits,
                 state, langfuse_session_id, catalogCalls, callLog, messages,
                 available_tools, response, response_contents, pos,
                 assistant_message_content, has_tool_calls, final_text, i,
                 tool_results, tool_results_context, tool_to_client_map,
                 modelCalls, roundsLog, dispatchLog>>
ExtractSpec == ExtractInit /\ [][Extract_Apply]_vars

(* ------- _handle_reference_tool on its own (host.py 412-455) ----------- *)
\* host.py 412-455: one reference_tool_output call, id c2, that refers to the
\* cached result of c1 with an extract_path
Reference_Handle ==
  /\ pc = "extract"
  /\ LET content == response_contents[1]
         o == handle_reference_tool(content.id, content.input, content,
                                    assistant_message_content, messages,
                                    tool_results_context, final_text)
     IN IF o.raised
        THEN pc' = "raised" /\ exc' = o.exc /\ messages' = messages
        ELSE pc' = "done" /\ exc' = exc /\ messages' = o.messages
  /\ UNCHANGED <<driver, provider, max_iterations, enabled_clients, enabled_toolkits,
                 state, langfuse_session_id, catalogCalls, callLog,
                 available_tools, response, response_contents, pos,
                 assistant_message_content, has_tool_calls, final_text, i,
                 tool_results, tool_results_context, tool_to_client_map,
                 returned, modelCalls, roundsLog, dispatchLog>>
ReferenceSpec == ExtractInit /\ [][Reference_Handle]_vars

(* ------------ get_all_tools on its own (step_executor.py 178-187) ------- *)
RECURSIVE SubsetsOf(_)
SubsetsOf(q) ==
  IF q = <<>> THEN {{}}
  ELSE LET rest == SubsetsOf(Tail(q)) IN rest \cup {x \cup {Head(q)} : x \in rest}
\* a provider (one of them unsupported) and a set of enabled toolkits
CatalogInit ==
  /\ driver = "SE"
  /\ provider \in {"ANTHROPIC", "OPENAI", "OTHER"}
  /\ max_iterations = 1
  /\ enabled_clients = {}
  /\ enabled_toolkits \in SubsetsOf(Toolkits)
  /\ pc = "catalog"
  /\ exc = ""
  /\ messages = <<>>
  /\ available_tools = <<>>
  /\ response = Anthropic(<<>>)
  /\ response_contents = <<>>
  /\ pos = 1
  /\ assistant_message_content = <<>>
  /\ has_tool_calls = FALSE
  /\ final_text = <<>>
  /\ i = 0
  /\ tool_results = EmptyMap
  /\ tool_results_context = EmptyMap
  /\ tool_to_client_map = EmptyMap
  /\ returned = <<>>
  /\ modelCalls = 0
  /\ roundsLog = <<>>
  /\ state = StateWithoutTools
  /\ langfuse_session_id = NoSession
  /\ catalogCalls = 0
  /\ callLog = <<>>
  /\ dispatchLog = <<>>
\* step_executor.py 178-187 (and 98, 138, 176: raise ValueError for a provider
\* with no format): one call of get_all_tools(provider)
Catalog_Build ==
  /\ pc = "catalog"
  /\ IF provider \in {"ANTHROPIC", "OPENAI"}
     THEN /\ available_tools' =
               se_get_all_tools(provider,
                                get_toolkits_from_arcade(provider, enabled_toolkits))
          /\ pc' = "done" /\ exc' = exc
     ELSE /\ pc' = "raised" /\ exc' = "ValueError"
          /\ available_tools' = available_tools
  /\ UNCHANGED <<driver, provider, max_iterations, enabled_clients, enabled_toolkits,
                 state, langfuse_session_id, catalogCalls, callLog,
                 messages, response, response_contents, pos,
                 assistant_message_content, has_tool_calls, final_text, i,
                 tool_results, tool_results_context, tool_to_client_map,
                 returned, modelCalls, roundsLog, dispatchLog>>
CatalogSpec == CatalogInit /\ [][Catalog_Build]_vars

(* ------------------------------- claims -------------------------------- *)
ControlNames == {"reference_tool_output", "get_previous_step_result",
                 "signal_insufficient_context"}
Dispatches == 1..Len(dispatchLog)
\* the dispatch ended the invocation: the handler raised, or StepExecutor saw
\* the sentinel
EndedInvocation(e) == e.raised \/ (driver = "SE" /\ ShouldReturnEarly(e.result))
Last(q) == q[Len(q)]

\* C1: single tool per round. In both loops every dispatched block is the
\* first tool_use block of its round's response, no response has two blocks
\* dispatched, the content loop never stands behind a tool_use block of the
\* response it iterates (no later block is inspected), and a dispatch that
\* did not end the invocation is followed by a model call.
C1_SingleToolPerRound ==
  /\ \A k \in Dispatches :
       LET e == dispatchLog[k] IN
       /\ roundsLog[e.round][e.pos].type = "tool_use"
       /\ \A p \in 1..(e.pos - 1) : roundsLog[e.round][p].type = "text"
       /\ \A j \in Dispatches : j # k => dispatchLog[j].round # e.round
       /\ ~EndedInvocation(e) => modelCalls > e.calls
  /\ pc = "for" =>
       \A p \in 1..(pos - 1) :
         p <= Len(response_contents) => response_contents[p].type = "text"
\* C1 witness: a StepExecutor response held two tool_use blocks, the first was
\* dispatched, and the next round is scanned under a later model call.
C1_Witness ==
  /\ driver = "SE" /\ pc = "for"
  /\ \E k \in Dispatches :
       LET e == dispatchLog[k] IN
       /\ \E p \in (e.pos + 1)..Len(roundsLog[e.round]) :
            roundsLog[e.round][p].type = "tool_use"
       /\ Len(roundsLog) > e.round
       /\ modelCalls > e.calls

\* C2: insufficiency short-circuit. In StepExecutor a dispatch whose result
\* begins with the sentinel is the last dispatch, the invocation has returned
\* in that round, the last element of the returned sequence is that result,
\* and no model call was issued after the dispatch.
C2_InsufficiencyShortCircuit ==
  driver = "SE" =>
    \A k \in Dispatches :
      LET e == dispatchLog[k] IN
      StartsWithSentinel(e.result) =>
        /\ k = Len(dispatchLog)
        /\ pc = "done"
        /\ Len(roundsLog) = e.round
        /\ Len(returned) > 0 /\ Last(returned) = e.result
        /\ modelCalls = e.calls
\* C2 witness: signal_insufficient_context with reason r1 ended the invocation.
C2_Witness ==
  /\ driver = "SE" /\ pc = "done"
  /\ Len(dispatchLog) > 0
  /\ Last(dispatchLog).name = "signal_insufficient_context"
  /\ Last(returned) = <<SENTINEL, ": ", "r1">>

\* every response of the invocation, the unprocessed last one included,
\* requested a tool
AlwaysRequestsTool ==
  /\ HasToolUse(response)
  /\ \A n \in 1..Len(roundsLog) :
       \E p \in 1..Len(roundsLog[n]) : roundsLog[n][p].type = "tool_use"
NoSentinelResult == \A k \in Dispatches : ~StartsWithSentinel(dispatchLog[k].result)
Finished == pc \in {"done", "raised"}

C3_IterationGuardInv ==
  driver = "SE" =>
    /\ Len(dispatchLog) <= max_iterations
    /\ pc \in {"while", "done"} =>
         i = Len(dispatchLog)
             - (IF Len(dispatchLog) > 0 /\ EndedInvocation(Last(dispatchLog))
                THEN 1 ELSE 0)
    /\ pc = "raised" =>
         \/ /\ exc = "JSONDecodeError" /\ provider = "OPENAI"
            /\ \E n \in 1..Len(response.tool_calls) :
                 ~Loads(response.tool_calls[n].arguments).ok
         \/ exc = "ProviderCallError" /\ Last(callLog).failed
         \/ exc = "TypeError" /\ ~state.given /\ modelCalls = 0
    /\ pc = "done" => returned = final_text
    /\ pc = "done" /\ AlwaysRequestsTool /\ NoSentinelResult =>
         /\ Len(roundsLog) = max_iterations
         /\ Len(dispatchLog) = max_iterations
         /\ i = max_iterations
\* the rounds left, then the loop test before the content loop, then the
\* blocks left in the content loop; a finished invocation ranks lowest
Rank ==
  CASE Finished -> <<-1, 0, 0>>
    [] pc = "start" -> <<max_iterations + 1, 0, 0>>
    [] pc = "while" -> <<max_iterations - i, 1, 0>>
    [] OTHER -> <<max_iterations - i, 0, Len(response_contents) + 1 - pos>>
RankLess(a, b) ==
  \/ a[1] < b[1]
  \/ a[1] = b[1] /\ a[2] < b[2]
  \/ a[1] = b[1] /\ a[2] = b[2] /\ a[3] < b[3]
IsTextBlock(b) == b.type = "text"
\* the assistant message of a dispatch: the text blocks before the tool_use
\* block in its response, then the tool_use block
AssistantOf(e) ==
  Message("assistant",
          SelectSeq(SubSeq(roundsLog[e.round], 1, e.pos - 1), IsTextBlock)
            \o <<roundsLog[e.round][e.pos]>>)
\* the handler appended the assistant message and the user message with the
\* one tool_result block of the call, and left the earlier messages alone
PairAppended(e) ==
  LET n == Len(e.before) IN
  /\ Len(e.after) = n + 2
  /\ SubSeq(e.after, 1, n) = e.before
  /\ e.after[n + 1] = AssistantOf(e)
  /\ e.after[n + 2].role = "user"
  /\ Len(e.after[n + 2].content) = 1
  /\ e.after[n + 2].content[1].type = "tool_result"
  /\ e.after[n + 2].content[1].tool_use_id = e.id
Continued == {k \in Dispatches : ~EndedInvocation(dispatchLog[k])}

\* C4: history protocol shape. Every dispatch whose handler returned extended
\* the history it was given by the assistant message (preceding text blocks,
\* then the tool_use block) and the user message with one tool_result block
\* carrying the call's id; the loop's history keeps every such extension as a
\* prefix, has length 1 + 2k after k rounds that went on, and alternates
\* user/assistant from the opening user message.
C4_HistoryProtocolShape ==
  /\ \A k \in Dispatches :
       LET e == dispatchLog[k] IN
       ~e.raised =>
         /\ PairAppended(e)
         /\ ~EndedInvocation(e) =>
              /\ Len(messages) >= Len(e.after)
              /\ SubSeq(messages, 1, Len(e.after)) = e.after
  /\ pc # "start" =>
       /\ Len(messages) = 1 + 2 * Cardinality(Continued)
       /\ \A n \in 1..Len(messages) :
            messages[n].role = IF n % 2 = 1 THEN "user" ELSE "assistant"
\* C4 witness: MCPHost after two dispatch rounds, one of them the unknown-tool
\* branch with two text blocks before the tool_use block.
C4_Witness ==
  /\ driver = "MH" /\ Len(messages) = 5
  /\ \E k \in Dispatches :
       LET e == dispatchLog[k] IN
       /\ e.name = "unknown_tool"
       /\ Len(e.after[Len(e.before) + 1].content) = 3

\* C5 as claimed: after a StepExecutor round whose backend tool call (id c,
\* name n) completed with result r without the sentinel exit, the cache holds
\* tool_results[c] = (n, r), whatever r is.
C5_MemoizedAsClaimed ==
  driver = "SE" /\ Len(dispatchLog) > 0 =>
    LET e == Last(dispatchLog) IN
    e.name \notin ControlNames /\ ~ShouldReturnEarly(e.result) =>
      /\ e.id \in DOMAIN tool_results
      /\ tool_results[e.id] = <<e.name, e.result>>

\* C6 as claimed: an entry of the call-result cache, once written, is neither
\* changed nor removed by a later step of the invocation.
C6_WriteOnceAsClaimed ==
  [][/\ \A c \in DOMAIN tool_results :
          c \in DOMAIN tool_results' /\ tool_results'[c] = tool_results[c]
     /\ \A c \in DOMAIN tool_results_context :
          /\ c \in DOMAIN tool_results_context'
          /\ tool_results_context'[c] = tool_results_context[c]]_vars

\* the control tools of the running loop
ControlNamesOf(d) == IF d = "SE" THEN ControlNames ELSE {"reference_tool_output"}
\* C7: control-tool calls are never memoized. A step that dispatches a control
\* tool leaves the call-result cache (the session state's and MCPHost's local
\* one) exactly as it was.
C7_ControlCallsNotMemoized ==
  [][(/\ Len(dispatchLog') = Len(dispatchLog) + 1
      /\ Last(dispatchLog').name \in ControlNamesOf(driver))
     => /\ tool_results' = tool_results
        /\ tool_results_context' = tool_results_context]_vars
\* C7 witness: MCPHost dispatched reference_tool_output, the lookup found a
\* cached result, and the call's own id has no entry.
C7_Witness ==
  /\ driver = "MH" /\ Len(dispatchLog) > 0
  /\ LET e == Last(dispatchLog) IN
     /\ e.name = "reference_tool_output"
     /\ ~e.raised
     /\ Arg(e.input, "tool_id") \in e.cache
     /\ Truthy(e.fed)
     /\ e.id \notin DOMAIN tool_results_context

\* C8: unresolved reference. A reference_tool_output dispatch whose tool_id is
\* no key of the cache does not raise, feeds back the error text naming the
\* id in the usual message pair, and is followed by another model call.
C8_UnresolvedReference ==
  \A k \in Dispatches :
    LET e == dispatchLog[k] IN
    /\ e.name = "reference_tool_output"
    /\ HasKey(e.input, "tool_id")
    /\ Arg(e.input, "tool_id") \notin e.cache
    => /\ ~e.raised
       /\ e.fed = <<"Error: No tool result found with ID '", Arg(e.input, "tool_id"), "'">>
       /\ PairAppended(e)
       /\ Last(e.after).content[1].content = e.fed
       /\ modelCalls > e.calls
\* C8 witness: MCPHost dispatched a reference to an id that is not cached and
\* went on to the next round.
C8_Witness ==
  /\ driver = "MH" /\ pc = "for"
  /\ \E k \in Dispatches :
       LET e == dispatchLog[k] IN
       /\ e.name = "reference_tool_output"
       /\ Arg(e.input, "tool_id") \notin e.cache
       /\ modelCalls > e.calls
       /\ Len(roundsLog) > e.round

\* C10: unknown backend tool is non-fatal. In MCPHost a dispatch of a name that
\* is neither a built-in tool nor in the name-to-client map calls no backend,
\* does not raise, feeds back the "is not available" error in the usual
\* message pair, puts the "not found in any client" error into the output
\* buffer, and is followed by another model call.
C10_UnknownToolNonFatal ==
  driver = "MH" =>
    \A k \in Dispatches :
      LET e == dispatchLog[k] IN
      /\ e.name \notin {"reference_tool_output", "access_resource"}
      /\ e.name \notin DOMAIN tool_to_client_map
      => /\ ~e.raised
         /\ e.backend = ""
         /\ e.fed = <<"Error: Tool '", e.name, "' is not available.">>
         /\ PairAppended(e)
         /\ Last(e.text_after) = <<"Error: Tool '", e.name, "' not found in any client">>
         /\ \E n \in 1..Len(final_text) : final_text[n] = Last(e.text_after)
         /\ modelCalls > e.calls
\* C10 witness: MCPHost dispatched unknown_tool and went on to the next round.
C10_Witness ==
  /\ driver = "MH" /\ pc = "for"
  /\ \E k \in Dispatches :
       LET e == dispatchLog[k] IN
       /\ e.name = "unknown_tool"
       /\ modelCalls > e.calls
       /\ Len(roundsLog) > e.round

RECURSIVE SegmentsPresent(_, _)
\* every segment of the path is a key of the object reached so far
SegmentsPresent(data, parts) ==
  IF parts = <<>> THEN TRUE
  ELSE /\ HasKey(data, Head(parts))
       /\ SegmentsPresent(data.kids[Head(parts)], Tail(parts))
RECURSIVE SubValue(_, _)
SubValue(data, parts) ==
  IF parts = <<>> THEN data ELSE SubValue(data.kids[Head(parts)], Tail(parts))
\* C9 as claimed: what _extract_reference_data returns is the not-valid-JSON
\* text when the cached result does not parse, "Path not found in data" when a
\* segment is missing, and otherwise the serialization of the sub-value at the
\* path, for every sub-value.
C9_PathExtractionAsClaimed ==
  pc = "done" =>
    LET d == Loads(tool_results_context["c1"])
        parts == SplitDot(ExtractedPath) IN
    returned = IF ~d.ok THEN <<"Cannot extract path: result is not valid JSON">>
               ELSE IF ~SegmentsPresent(d.val, parts) THEN <<"Path not found in data">>
               ELSE Dumps(SubValue(d.val, parts))
\* what holds of the code: the same, for sub-values that Python counts as true
C9_PathExtractionTruthy ==
  pc = "done" =>
    LET d == Loads(tool_results_context["c1"])
        parts == SplitDot(ExtractedPath) IN
    (d.ok /\ SegmentsPresent(d.val, parts)) =>
      returned = IF PyTruthy(SubValue(d.val, parts))
                 THEN Dumps(SubValue(d.val, parts))
                 ELSE <<"Path not found in data">>

\* C11 as claimed: a failing backend call (call_tool, read_resource) is turned
\* into a textual tool result: the dispatch does not raise, the message pair is
\* appended, another model call follows, and the backend's error never leaves
\* process_input_with_agent_loop.
C11_BackendFailureConvertedAsClaimed ==
  /\ ~(pc = "raised" /\ exc = "BackendError")
  /\ \A k \in Dispatches :
       LET e == dispatchLog[k] IN
       e.backend # "" => /\ ~e.raised
                         /\ PairAppended(e)
                         /\ ~EndedInvocation(e) => modelCalls > e.calls

\* C12: catalog order. For ANTHROPIC and OPENAI and every set of enabled
\* toolkits, the empty one included, get_all_tools returns the descriptions of
\* reference_tool_output, get_previous_step_result and
\* signal_insufficient_context, in that order and in the provider's format,
\* followed by the fetched tools in the order the registry returned them.
C12_CatalogOrder ==
  pc = "done" =>
    LET fetched == get_toolkits_from_arcade(provider, enabled_toolkits) IN
    /\ Len(available_tools) = 3 + Len(fetched)
    /\ available_tools[1].name = "reference_tool_output"
    /\ available_tools[2].name = "get_previous_step_result"
    /\ available_tools[3].name = "signal_insufficient_context"
    /\ \A n \in 1..3 :
         available_tools[n].shape =
           IF provider = "ANTHROPIC" THEN "anthropic" ELSE "openai_function"
    /\ SubSeq(available_tools, 4, Len(available_tools)) = fetched
\* C12 witness: the OPENAI catalog for three enabled toolkits, whose tools
\* come in the registry's order (Search before Mail before Chat).
C12_Witness ==
  /\ pc = "done" /\ provider = "OPENAI"
  /\ enabled_toolkits = {"Chat", "Mail", "Search"}
  /\ Len(available_tools) = 7
  /\ available_tools[4].name = "search" /\ available_tools[7].name = "post"

\* the clients MCPHost was constructed with (host.py 59: none given means the
\* default list)
Enabled == IF enabled_clients = {} THEN {"Gmail", "Slack"} ELSE enabled_clients
BuiltIn == {"access_resource", "reference_tool_output"}
\* C13: disabled backends are unreachable. In MCPHost every tool of the
\* catalog is a built-in or is listed by an enabled backend, the name-to-client
\* map names enabled backends only, and every call_tool or read_resource went
\* to an enabled backend, whatever tool name or client name the model asked for.
C13_DisabledBackendsUnreachable ==
  driver = "MH" =>
    /\ \A n \in 1..Len(available_tools) :
         \/ available_tools[n] \in BuiltIn
         \/ \E c \in Enabled : \E m \in 1..Len(ListTools(c)) :
              ListTools(c)[m] = available_tools[n]
    /\ \A t \in DOMAIN tool_to_client_map : tool_to_client_map[t] \in Enabled
    /\ \A k \in Dispatches :
         dispatchLog[k].backend # "" => dispatchLog[k].backend \in Enabled
\* C13 witness: with Slack disabled the model asked for Slack's tool post and
\* for a resource of client Slack; neither reached a backend.
C13_Witness ==
  /\ driver = "MH" /\ enabled_clients = {"Gmail"}
  /\ Len(dispatchLog) = 2
  /\ dispatchLog[1].name = "post" /\ dispatchLog[1].backend = ""
  /\ dispatchLog[2].name = "access_resource"
  /\ Arg(dispatchLog[2].input, "client") = "Slack"
  /\ dispatchLog[2].raised /\ dispatchLog[2].backend = ""

\* the catalog was resolved as the claim says, and every model call so far
\* got that catalog, the provider and the system prompt
CatalogResolved ==
  /\ IF state.given /\ state.has_tools /\ state.tools # <<>>
     THEN catalogCalls = 0 /\ available_tools = state.tools
     ELSE /\ catalogCalls = 1
          /\ modelCalls >= 1
          /\ available_tools =
               se_get_all_tools(provider,
                                get_toolkits_from_arcade(provider, enabled_toolkits))
  /\ \A k \in 1..Len(callLog) :
       /\ callLog[k].available_tools = available_tools
       /\ callLog[k].provider = provider
       /\ callLog[k].system_prompt = current_system_prompt
\* C14 as claimed: once StepExecutor's loop is entered, a non-empty catalog of
\* the session state is used without calling get_all_tools; in every other
\* case, an omitted state included, get_all_tools was called exactly once and
\* the model was called; every model call got the same catalog, provider and
\* system prompt.
C14_CatalogResolutionAsClaimed == driver = "SE" /\ pc # "start" => CatalogResolved
\* what holds of the code: the same whenever a session state was passed
C14_CatalogResolutionGivenState ==
  driver = "SE" /\ pc # "start" /\ state.given => CatalogResolved

\* the blocks the claim gives for an OpenAI-shaped response
OpenAIBlocks(resp) ==
  (IF resp.content # <<>> THEN <<[type |-> "text", text |-> resp.content]>> ELSE <<>>)
  \o [n \in 1..Len(resp.tool_calls) |->
        [type |-> "tool_use", name |-> resp.tool_calls[n].name,
         input |-> Loads(resp.tool_calls[n].arguments).val,
         id |-> resp.tool_calls[n].id]]
\* position of the first tool_use block, Len + 1 if there is none
FirstToolUse(blocks) ==
  IF \E p \in 1..Len(blocks) : blocks[p].type = "tool_use"
  THEN CHOOSE p \in 1..Len(blocks) :
         /\ blocks[p].type = "tool_use"
         /\ \A q \in 1..(p - 1) : blocks[q].type # "tool_use"
  ELSE Len(blocks) + 1
\* the output fragments of round r, from its blocks and its dispatch's result
RoundFragments(r) ==
  LET blocks == roundsLog[r]
      f == FirstToolUse(blocks)
      texts == [p \in 1..(f - 1) |-> blocks[p].text]
  IN IF f > Len(blocks) \/ r > Len(dispatchLog) THEN texts
     ELSE LET d == dispatchLog[r] IN
          texts
          \o (IF d.name \in ControlNames THEN <<>>
              ELSE << <<"[Calling tool ", d.name, "]">> >>)
          \o (IF d.result # <<>> /\ d.result[1] = SENTINEL THEN <<d.result>> ELSE <<>>)
RECURSIVE ReplayText(_)
ReplayText(r) == IF r = 0 THEN <<>> ELSE ReplayText(r - 1) \o RoundFragments(r)
RECURSIVE ReplayCache(_)
\* the result cache, from the dispatches' names, ids and results
ReplayCache(k) ==
  IF k = 0 THEN EmptyMap
  ELSE LET d == dispatchLog[k] IN
       IF /\ d.result # <<>>
          /\ d.result[1] # SENTINEL
          /\ d.name \notin {"get_previous_step_result", "reference_tool_output"}
       THEN Put(ReplayCache(k - 1), d.id, <<d.name, d.result>>)
       ELSE ReplayCache(k - 1)
\* C15: provider-shape equivalence. For OPENAI the blocks of a round are the
\* text block of a non-empty content followed by one tool_use block per
\* tool_call, in order, with its id, name and decoded arguments; for ANTHROPIC
\* they are the response's content. From there on nothing depends on the
\* provider: between rounds the output fragments, the dispatches (name,
\* arguments, id) and the result cache are functions of the rounds' blocks and
\* the tools' results alone, so two runs on the same blocks agree on them.
C15_ProviderShapeEquivalence ==
  driver = "SE" =>
    /\ pc = "for" =>
         Last(roundsLog) = IF provider = "OPENAI" THEN OpenAIBlocks(response)
                           ELSE response.content
    /\ \A k \in Dispatches :
         LET d == dispatchLog[k]
             b == roundsLog[k][FirstToolUse(roundsLog[k])]
         IN d.round = k /\ d.name = b.name /\ d.input = b.input /\ d.id = b.id
    /\ pc \in {"while", "done"} =>
         /\ final_text = ReplayText(Len(roundsLog))
         /\ tool_results = ReplayCache(Len(dispatchLog))
\* C15 witness: an OPENAI run returned after a round whose response had a
\* non-empty content and a tool call, with the call's result in the cache.
C15_Witness ==
  /\ driver = "SE" /\ provider = "OPENAI" /\ pc = "done"
  /\ Len(roundsLog) = 2
  /\ Len(roundsLog[1]) = 2
  /\ roundsLog[1][1].type = "text" /\ roundsLog[1][2].type = "tool_use"
  /\ roundsLog[1][2].id \in DOMAIN tool_results

\* C16: provider failure propagates without retry. A model call that failed
\* is the last model call of the invocation, which ended by raising that
\* failure; and no step (no model call, no dispatch) is taken once an
\* invocation has raised.
C16_ProviderFailurePropagates ==
  /\ [](\A k \in 1..Len(callLog) :
          callLog[k].exc = "ProviderCallError" =>
            /\ callLog[k].failed
            /\ k = Len(callLog)
            /\ modelCalls = k
            /\ pc = "raised" /\ exc = "ProviderCallError")
  /\ [][pc # "raised"]_vars
\* C16 witness: StepExecutor's model call after the first dispatch failed and
\* the invocation raised.
C16_Witness ==
  /\ driver = "SE" /\ pc = "raised" /\ exc = "ProviderCallError"
  /\ Len(callLog) = 2 /\ callLog[2].failed /\ ~callLog[1].failed
  /\ Len(dispatchLog) = 1

\* the name-to-client map this invocation's own catalog construction built
OwnMap ==
  get_all_tools_from_servers(McpClients(enabled_clients), <<>>, EmptyMap,
                             "first").tool_to_client_map
\* C17 as claimed: with another invocation of the same host interleaved, every
\* backend tool call of this invocation is resolved by the map its own catalog
\* construction built: it goes to the backend that map names, or is reported
\* not found when the map has no entry, as if the invocation had run alone.
C17_IndependentInvocationsAsClaimed ==
  driver = "MH" =>
    \A k \in Dispatches :
      LET e == dispatchLog[k] IN
      e.name \notin BuiltIn =>
        e.backend = IF e.name \in DOMAIN OwnMap THEN OwnMap[e.name] ELSE ""

\* C18 as claimed: a failing langfuse call inside _create_claude_message or
\* _process_tool_call does not fail the model call or the tool dispatch: no
\* model call ends with the telemetry's error and the error never leaves
\* MCPHost's loop.
C18_TelemetryCannotFailAsClaimed ==
  driver = "MH" =>
    /\ \A k \in 1..Len(callLog) : callLog[k].exc # "TelemetryError"
    /\ ~(pc = "raised" /\ exc = "TelemetryError")

\* the body of every text block before the first tool_use block of blocks is
\* a fragment of out
TextsSurfaced(blocks, out) ==
  \A p \in 1..(FirstToolUse(blocks) - 1) :
    \E n \in 1..Len(out) : out[n] = blocks[p].text
\* C19 as claimed: when StepExecutor returns, the returned buffer holds the
\* body of each text block that precedes the first tool_use block of every
\* response obtained: of the responses of the rounds, and of the response
\* fetched after the last dispatch.
C19_EveryTextSurfacedAsClaimed ==
  driver = "SE" /\ pc = "done" =>
    /\ \A r \in 1..Len(roundsLog) : TextsSurfaced(roundsLog[r], returned)
    /\ LET n == Normalize(provider, response) IN
       ~n.raised => TextsSurfaced(n.value, returned)
\* what holds of the code: the text of every round the loop entered is returned
C19_RoundsSurfaced ==
  driver = "SE" /\ pc = "done" =>
    \A r \in 1..Len(roundsLog) : TextsSurfaced(roundsLog[r], returned)

\* the text blocks' bodies of blocks, in order
TextsOf(blocks) ==
  LET texts == SelectSeq(blocks, IsTextBlock) IN
  [n \in 1..Len(texts) |-> texts[n].text]
\* the output buffer when the last round was entered
BeforeLastRound ==
  IF dispatchLog = <<>> THEN <<>> ELSE Last(dispatchLog).text_after
\* C20 as claimed: when an invocation of either loop has returned after a
\* round whose response had no tool_use block, its output is the fragments of
\* the earlier rounds followed by the body of each text block of that response,
\* once each, in the response's order.
C20_NormalCompletionAsClaimed ==
  /\ pc = "done"
  /\ roundsLog # <<>>
  /\ \A p \in 1..Len(Last(roundsLog)) : Last(roundsLog)[p].type # "tool_use"
  => /\ final_text = BeforeLastRound \o TextsOf(Last(roundsLog))
     /\ returned = IF driver = "SE" THEN final_text ELSE Join(final_text)
\* what holds of the code: the same for StepExecutor
C20_NormalCompletionSE == driver = "SE" => C20_NormalCompletionAsClaimed

\* C21 as claimed: MCPHost's loop has an iteration budget. Against any model,
\* one that requests a tool in every response included, and with every model
\* and tool call returning, no more than MHBudget rounds dispatch a tool
\* before the invocation returns.
C21_HostTerminatesAsClaimed ==
  driver = "MH" /\ pc # "raised" => Len(dispatchLog) <= MHBudget

\* C22 as claimed: path extraction never raises. For every cached result and
\* every extract_path, paths that descend through a number, string, list,
\* boolean or null included, the reference_tool_output call returns, and the
\* history then ends with the tool_result of the call carrying a text.
C22_ExtractionNeverRaisesAsClaimed ==
  pc # "extract" =>
    /\ pc = "done"
    /\ Len(messages) = 2
    /\ Last(messages).role = "user"
    /\ Last(messages).content[1].type = "tool_result"
    /\ Last(messages).content[1].tool_use_id = "c2"
    /\ Last(messages).content[1].content # NoneVal
\* what holds of the code: the call raises only TypeError, and only when the
\* walk meets a value that is not an object before the path is used up
C22_ExtractionRaisesOnlyOffObjects ==
  pc = "raised" =>
    /\ exc = "TypeError"
    /\ LET d == Loads(tool_results_context["c1"]) IN
       d.ok /\ ~SegmentsPresent(d.val, SplitDot(ExtractedPath))

\* the first reference_tool_output call of a later plan step that names c1,
\* before the step itself dispatched a call with that id: it was answered with
\* the result the earlier step cached
AnsweredFromEarlierStep(k) ==
  LET e == dispatchLog[k] IN
  /\ e.name = "reference_tool_output"
  /\ HasKey(e.input, "tool_id") /\ Arg(e.input, "tool_id") = "c1"
  /\ ~HasKey(e.input, "extract_path")
  /\ \A j \in 1..(k - 1) : dispatchLog[j].id # "c1"
  => /\ ~e.raised
     /\ e.fed = EarlierResult
\* C23 as claimed: cross-step reference. In either loop a reference_tool_output
\* call whose tool_id is a key of the session state's cache written by an
\* earlier invocation is answered with that cached result, not with the
\* "No tool result found" error.
C23_CrossStepReferenceAsClaimed == \A k \in Dispatches : AnsweredFromEarlierStep(k)
\* what holds of the code: the same in StepExecutor's loop
C23_CrossStepReferenceSE ==
  driver = "SE" => \A k \in Dispatches : AnsweredFromEarlierStep(k)

\* client_name lists a tool named t
Lists(client_name, t) ==
  \E n \in 1..Len(ListTools(client_name)) : ListTools(client_name)[n] = t
\* the positions in self.mcp_clients of the clients that list t
ListingPositions(t) ==
  {n \in 1..Len(McpClients(enabled_clients)) : Lists(McpClients(enabled_clients)[n], t)}
\* the client listing t that comes last in registration order
LastRegistered(t) ==
  McpClients(enabled_clients)[CHOOSE n \in ListingPositions(t) :
                                \A m \in ListingPositions(t) : m <= n]
Shadowed == {t \in {"send_email", "search", "post"} : Cardinality(ListingPositions(t)) >= 2}
\* C24: duplicate tool names shadow silently. In MCPHost, when two enabled
\* backends list a tool of the same name, the catalog construction does not
\* raise (the first model call is made), the name-to-client map gives the name
\* to the backend that comes later in registration order, and every dispatch
\* of the name calls that later backend.
C24_DuplicateNamesShadow ==
  driver = "MH" /\ pc # "start" =>
    \A t \in Shadowed :
      /\ modelCalls >= 1 /\ catalogCalls = 1
      /\ t \in DOMAIN tool_to_client_map
      /\ tool_to_client_map[t] = LastRegistered(t)
      /\ \A k \in Dispatches :
           dispatchLog[k].name = t => dispatchLog[k].backend = LastRegistered(t)
\* C24 witness: Gmail and Slack both list search; the model asked for search
\* twice and both calls went to Slack.
C24_Witness ==
  /\ driver = "MH" /\ enabled_clients = {"Gmail", "Slack"}
  /\ Shadowed = {"search"}
  /\ Len(dispatchLog) = 2
  /\ \A k \in Dispatches :
       /\ dispatchLog[k].name = "search"
       /\ dispatchLog[k].backend = "Slack"
       /\ ~dispatchLog[k].raised

\* the output buffer carries the annotation of a call_tool for the name
CalledAsTool(text, tool_name) ==
  \E n \in 1..Len(text) :
    Len(text[n]) >= 2 /\ text[n][1] = "[Calling tool " /\ text[n][2] = tool_name
\* C25: control names take dispatch priority. In MCPHost a call named
\* reference_tool_output is answered from the cache and reaches no backend, and
\* a call named access_resource is a read_resource on the client its arguments
\* name (or fails for a client that is not enabled); neither is ever forwarded
\* to call_tool, also when the name-to-client map holds the name.
C25_ControlNamesFirst ==
  driver = "MH" =>
    \A k \in Dispatches :
      LET e == dispatchLog[k] IN
      /\ e.name = "reference_tool_output" =>
           /\ e.backend = ""
           /\ e.result = NoneVal
           /\ ~CalledAsTool(e.text_after, e.name)
      /\ e.name = "access_resource" =>
           /\ e.backend \in {"", Arg(e.input, "client")}
           /\ ~CalledAsTool(e.text_after, e.name)
           /\ ~e.raised =>
                Last(e.text_after) = <<"[Accessing resource ", Arg(e.input, "uri"), "]">>
\* C25 witness: Slack registered both control names in the map; the model
\* called reference_tool_output, which was answered without a backend, and
\* then access_resource for client Gmail, which read Gmail's resource.
C25_Witness ==
  /\ driver = "MH"
  /\ "reference_tool_output" \in DOMAIN tool_to_client_map
  /\ tool_to_client_map["access_resource"] = "Slack"
  /\ Len(dispatchLog) = 2
  /\ dispatchLog[1].name = "reference_tool_output"
  /\ ~dispatchLog[1].raised /\ dispatchLog[1].backend = ""
  /\ dispatchLog[2].name = "access_resource"
  /\ ~dispatchLog[2].raised /\ dispatchLog[2].backend = "Gmail"

\* C26: session-state frame. No step of either loop changes the tools
\* catalog, the current plan or the plan-step results held in the session
\* state (nor whether a state was passed); only its call-result cache is
\* written.
C26_SessionStateFrame ==
  [][/\ state'.given = state.given
     /\ state'.has_tools = state.has_tools
     /\ state'.tools = state.tools
     /\ state'.current_plan = state.current_plan
     /\ state'.step_results = state.step_results]_vars
\* C26 witness: StepExecutor returned after two rounds that both wrote to the
\* call-result cache of a state carrying a catalog, a plan and a step result.
C26_Witness ==
  /\ driver = "SE" /\ pc = "done"
  /\ DOMAIN tool_results = {"c1", "c2"}
  /\ state.tools = SessionCatalog(provider)
  /\ state.current_plan = CurrentPlan
  /\ state.step_results = StepResults

\* the response about to be normalized has a tool_call whose arguments string
\* is not JSON
MalformedArguments ==
  /\ driver = "SE" /\ provider = "OPENAI" /\ pc = "while"
  /\ LoopContinues(i, max_iterations)
  /\ \E n \in 1..Len(response.tool_calls) : ~Loads(response.tool_calls[n].arguments).ok
\* C27: malformed function-call arguments are fatal. With provider OPENAI,
\* when the round of a response begins and the arguments string of any of its
\* tool_calls (the first or a later one) fails json.loads, the step ends the
\* invocation with JSONDecodeError; in that step no tool is dispatched, no
\* model call is made, the history, the output buffer and the result cache
\* are unchanged; and a raised invocation takes no further step.
C27_MalformedArgumentsFatal ==
  [][/\ MalformedArguments =>
          /\ pc' = "raised" /\ exc' = "JSONDecodeError"
          /\ dispatchLog' = dispatchLog
          /\ roundsLog' = roundsLog
          /\ messages' = messages
          /\ tool_results' = tool_results
          /\ final_text' = final_text
          /\ modelCalls' = modelCalls
     /\ ~(pc = "raised" /\ exc = "JSONDecodeError")]_vars
\* C27 witness: after a first round that dispatched search, the OPENAI
\* response held a well-formed tool_call followed by a malformed one, and the
\* invocation raised with the first round's history and cache.
C27_Witness ==
  /\ driver = "SE" /\ provider = "OPENAI"
  /\ pc = "raised" /\ exc = "JSONDecodeError"
  /\ Len(response.tool_calls) = 2
  /\ Loads(response.tool_calls[1].arguments).ok
  /\ ~Loads(response.tool_calls[2].arguments).ok
  /\ Len(dispatchLog) = 1 /\ Len(roundsLog) = 1
  /\ Len(messages) = 3
  /\ DOMAIN tool_results = {"c1"}

\* StepExecutor returned in the round of its last dispatch: no model call
\* followed that dispatch
EarlyExit ==
  /\ driver = "SE" /\ pc = "done"
  /\ dispatchLog # <<>>
  /\ modelCalls = Last(dispatchLog).calls
\* C28 as claimed: early exit is reserved to the insufficiency signal.
\* StepExecutor returns in the round of a dispatch, before a tool-free
\* response and before the iteration cap, only when the dispatched tool is
\* signal_insufficient_context; the result of a backend tool, of
\* reference_tool_output or of get_previous_step_result never ends the
\* invocation early, whatever its content.
C28_EarlyExitOnlyOnSignalAsClaimed ==
  EarlyExit => Last(dispatchLog).name = "signal_insufficient_context"
\* what holds of the code: the invocation returns early exactly when the
\* result of the dispatched tool, whichever tool it is, begins with the sentinel
C28_EarlyExitOnSentinelResult ==
  driver = "SE" /\ pc = "done" /\ dispatchLog # <<>> =>
    (EarlyExit <=> StartsWithSentinel(Last(dispatchLog).result))

====
